---- MODULE Spec2Model ----
(***************************************************************************)
(* A model of the vyper-js client library.                                 *)
(*                                                                         *)
(*   SpecRest  the REST client (src/src/vyper-client.ts): every public     *)
(*             operation, the shared request wrapper with its error        *)
(*             classification, and the default X-API-Key header that       *)
(*             getChainIds deletes and restores around its own request.    *)
(*             Calls overlap: an operation runs synchronously up to the    *)
(*             await of its HTTP request (Invoke) and resumes when the     *)
(*             response, or the failure, arrives (Settle).                 *)
(*   SpecFeed  the WebSocket feed client                                   *)
(*             (src/src/vyper-websocket-client.ts): connect, subscribe,    *)
(*             unsubscribe, listen, disconnect, ping, pong,                *)
(*             setMessageHandler, and the socket's open / message / error  *)
(*             / close events dispatched to the registered listeners in    *)
(*             registration order.                                         *)
(*                                                                         *)
(* JavaScript values: undefined is the string "undefined"; a text whose    *)
(* content matters (a header value, a JSON frame) is a sequence of         *)
(* one-character or one-token strings.                                     *)
(***************************************************************************)
EXTENDS Integers, Sequences, FiniteSets, Bags, TLC

VARIABLES
    apiKey,          \* VyperClient.apiKey
    xApiKeyHeader,   \* VyperClient.axiosInstance.defaults.headers['X-API-Key']
    inflight,        \* bag of REST calls suspended at the await of their request
    last,            \* REST: what the most recent step did (observation)
    connection,      \* VyperWebsocketClient.connection (a socket id)
    currentFeedType, \* VyperWebsocketClient.currentFeedType
    messageHandler,  \* VyperWebsocketClient.messageHandler
    sockets,         \* the WebSocket objects created so far
    promises,        \* the promises returned by connect / listen / disconnect
    wsLast           \* feed: what the most recent step did (observation)

restVars == <<apiKey, xApiKeyHeader, inflight, last>>
feedVars == <<connection, currentFeedType, messageHandler, sockets, promises, wsLast>>
vars == <<apiKey, xApiKeyHeader, inflight, last,
          connection, currentFeedType, messageHandler, sockets, promises, wsLast>>

\* ------------------------------------------------------------------ bounds

\* REST calls that may be suspended at the same time.
MaxInFlight == 2

\* WebSocket objects one feed client creates (connect calls).
MaxSockets == 2

\* Promises handed out by connect, listen and disconnect (calls that register
\* listeners on a socket).
MaxPromises == 2

\* The same two numbers for the specification of overlapping connections, where a
\* second socket is created while calls on the first are outstanding.
OverlapSockets == 2

OverlapPromises == 4

\* Promises in the specification of overlapping connections with their inbound side:
\* connect, listen, and the connect that replaces the handle.
OverlapInboundPromises == 3

\* One session on one socket: the socket, and the promises of connect, of listen and of
\* one more listen or disconnect call.
SessionSockets == 1

SessionPromises == 3

\* ---------------------------------------------------------- JavaScript values

Undefined == "undefined"

\* A string-valued JavaScript expression used as a condition: undefined and the empty
\* string count as false.
Truthy(v) == v \notin {Undefined, ""}

\* A value of another type that may be undefined: <<>> is undefined, <<v>> is v.
Undef == <<>>
Def(v) == <<v>>

\* ------------------------------------------------------------ feed: state

\* this.connection === undefined; sockets are numbered from 1 in creation order.
NoSocket == 0

\* What the most recent step of the feed client did: the operation called or the event
\* the socket reported, the operation's feed and message arguments (or the event's
\* data), how the promise the operation returned stands at its return, the frames handed
\* to the socket, the socket that reported the event (0 for a call), the records handed
\* to the message handler and the errors logged. The
\* listeners a call registers and the promise it creates are in `sockets` and `promises`.
FeedIdle ==
    [ev |-> "none", op |-> "", feed |-> "", message |-> <<>>, result |-> "", error |-> "",
     frames |-> <<>>, socket |-> 0, delivered |-> <<>>, logged |-> 0]

\* The constructor of VyperWebsocketClient: no connection, handler or feed type yet.
FeedInit ==
    /\ connection = NoSocket
    /\ currentFeedType = Undefined
    /\ messageHandler = Undefined
    /\ sockets = <<>>
    /\ promises = <<>>
    /\ wsLast = FeedIdle

\* ------------------------------------------------------------- REST: inputs

\* The constructor's argument: none, the empty string, a key.
ApiKeys == {Undefined, "", "key-A"}

GatedOps == {"getTokenAth", "getTokenMarket", "getTokenHolders", "getTokenMarkets",
             "getTokenMetadata", "getTokenSymbol", "getTopTraders", "searchTokens"}

OpenOps == {"getChainIds", "getWalletHoldings", "getWalletAggregatedPnl",
            "getWalletPnl", "getTokenPairs"}

Ops == GatedOps \cup OpenOps

\* The scalar arguments a caller passes; an optional one may be left out.
ChainIds == {1}
Intervals == {"1h"}
MarketIdArg == "mkt-1"
TokenMintArg == "mint-1"
WalletArg == "wallet-1"
CriteriaArg == "crit-1"
PairsArg == [page |-> 2, interval |-> "1h"]

ArgsFor(op) ==
    CASE op = "getTokenMarket" ->
           [chainId : {Def(c) : c \in ChainIds} \cup {Undef},
            interval : {Def(i) : i \in Intervals} \cup {Undef}]
      [] op = "searchTokens" ->
           [chainId : {Def(c) : c \in ChainIds} \cup {Undef}, interval : {Undef}]
      [] op \in {"getChainIds", "getTokenPairs"} ->
           [chainId : {Undef}, interval : {Undef}]
      [] OTHER -> [chainId : {Def(c) : c \in ChainIds}, interval : {Undef}]

\* ------------------------------------------------- REST: the HTTP exchange

\* Text of a retry-after header, one character per element.
RetryAfterTexts ==
    { <<>>, <<"7">>, <<"0">>, <<"2", ".", "5">>, <<".", "5">>, <<"7", "x">>,
      <<" ", "7">>, <<"x">>, <<"x", "7">>, <<".">>, <<"-", "7">> }

RetryAfterHeaders == {Def(t) : t \in RetryAfterTexts} \cup {Undef}

ErrorStatuses == {304, 400, 401, 404, 429, 499, 500, 503, 599}

ErrorBodies == {[message |-> "body-1"]}

NoResponseMessages == {"Network Error", "timeout of 0ms exceeded"}

HoldersPayload == [holders |-> <<"holder-1", "holder-2">>, total_holders |-> 2]

PayloadFor(op) == IF op = "getTokenHolders" THEN HoldersPayload ELSE [value |-> "data-1"]

\* What axiosInstance.request can produce for a call of `op`: a 2xx answer with the
\* envelope, an error with a response, an error without one.
HttpOutcomes(op) ==
    { [type |-> "ok", status |-> 200,
       data |-> Def([status |-> "success", message |-> "ok", data |-> PayloadFor(op)]),
       retryAfter |-> Undef, message |-> ""] }
    \cup { [type |-> "response", status |-> 429, data |-> Def(b), retryAfter |-> h,
            message |-> "Request failed"] : b \in ErrorBodies, h \in RetryAfterHeaders }
    \cup { [type |-> "response", status |-> s, data |-> Def(b), retryAfter |-> Undef,
            message |-> "Request failed"] : s \in ErrorStatuses \ {429}, b \in ErrorBodies }
    \cup { [type |-> "noresponse", status |-> 0, data |-> Undef,
            retryAfter |-> Undef, message |-> m] : m \in NoResponseMessages }

\* ------------------------------------------------------ REST: parseFloat

Digits == {"0", "1", "2", "3", "4", "5", "6", "7", "8", "9"}

DigitVal(c) ==
    CASE c = "0" -> 0 [] c = "1" -> 1 [] c = "2" -> 2 [] c = "3" -> 3 [] c = "4" -> 4
      [] c = "5" -> 5 [] c = "6" -> 6 [] c = "7" -> 7 [] c = "8" -> 8 [] c = "9" -> 9

\* A JavaScript number, kept in hundredths (the texts modelled carry at most two
\* fraction digits), or NaN.
NaN == [nan |-> TRUE, hundredths |-> 0]
Num(h) == [nan |-> FALSE, hundredths |-> h]

RECURSIVE SkipWhitespace(_)
SkipWhitespace(s) ==
    IF s # <<>> /\ Head(s) = " " THEN SkipWhitespace(Tail(s)) ELSE s

\* The longest prefix of s made of decimal digits.
RECURSIVE DigitPrefix(_)
DigitPrefix(s) ==
    IF s # <<>> /\ Head(s) \in Digits THEN <<Head(s)>> \o DigitPrefix(Tail(s)) ELSE <<>>

RECURSIVE DigitsValue(_)
DigitsValue(ds) ==
    IF ds = <<>> THEN 0
    ELSE 10 * DigitsValue(SubSeq(ds, 1, Len(ds) - 1)) + DigitVal(ds[Len(ds)])

Drop(s, n) == SubSeq(s, n + 1, Len(s))

\* Hundredths of the fraction digits ds (digits past the second do not occur).
FractionHundredths(ds) ==
    (IF Len(ds) >= 1 THEN 10 * DigitVal(ds[1]) ELSE 0)
    + (IF Len(ds) >= 2 THEN DigitVal(ds[2]) ELSE 0)

\* JavaScript's parseFloat on a text of spaces, signs, digits, dots and letters: leading
\* white space is skipped, the longest prefix that is a decimal literal is converted,
\* what follows it is ignored, and NaN is returned when no such prefix exists.
parseFloat(text) ==
    LET s0 == SkipWhitespace(text)
        signed == s0 # <<>> /\ Head(s0) \in {"-", "+"}
        negative == signed /\ Head(s0) = "-"
        s1 == IF signed THEN Tail(s0) ELSE s0
        ip == DigitPrefix(s1)
        s2 == Drop(s1, Len(ip))
        fp == IF s2 # <<>> /\ Head(s2) = "." THEN DigitPrefix(Tail(s2)) ELSE <<>>
        magnitude == 100 * DigitsValue(ip) + FractionHundredths(fp)
    IN  IF ip = <<>> /\ fp = <<>> THEN NaN
        ELSE Num(IF negative THEN 0 - magnitude ELSE magnitude)

\* The literal '3.00' of the rate-limit branch.
DefaultRetryAfterText == <<"3", ".", "0", "0">>

\* error.response.headers['retry-after'] || '3.00': an absent header and an empty one
\* are falsy.
RetryAfterOperand(header) ==
    IF header = Undef \/ header[1] = <<>> THEN DefaultRetryAfterText ELSE header[1]

\* ------------------------------------------------------------ REST: errors

\* new VyperApiError(message, statusCode, response) and its subclasses; RateLimitError
\* takes (message, retryAfter) and passes only the message on.
VyperApiError(message, statusCode, response) ==
    [name |-> "VyperApiException", message |-> message, statusCode |-> statusCode,
     response |-> response, retryAfter |-> Undef]

AuthenticationError(message, statusCode, response) ==
    [VyperApiError(message, statusCode, response) EXCEPT !.name = "AuthenticationError"]

ServerError(message, statusCode, response) ==
    [VyperApiError(message, statusCode, response) EXCEPT !.name = "ServerError"]

RateLimitError(message, retryAfter) ==
    [VyperApiError(message, Undef, Undef) EXCEPT
        !.name = "RateLimitError", !.retryAfter = Def(retryAfter)]

\* What an operation hands its caller.
Returned(value) == [ok |-> TRUE, value |-> Def(value), error |-> Undef]
Thrown(error) == [ok |-> FALSE, value |-> Undef, error |-> Def(error)]

\* ------------------------------------------------------- REST: operations

DefaultChainId == 900
DefaultInterval == "24h"

\* Mutant: searchTokens loses its credential check.
RequiresApiKey_SearchUnchecked(op) ==
    op \in {"getTokenAth", "getTokenMarket", "getTokenHolders", "getTokenMarkets",
            "getTokenMetadata", "getTokenSymbol", "getTopTraders"}

\* `if (!this.apiKey) throw new AuthenticationError(...)` opens these operations.
RequiresApiKey(op) ==
    op \in {"getTokenAth", "getTokenMarket", "getTokenHolders", "getTokenMarkets",
            "getTokenMetadata", "getTokenSymbol", "getTopTraders", "searchTokens"}

\* The endpoint each operation passes to request().
Endpoint(op) ==
    CASE op = "getChainIds" -> <<"/api/v1/chain/ids">>
      [] op = "getTokenAth" -> <<"/api/v1/token/ath">>
      [] op = "getTokenMarket" -> <<"/api/v1/token/market/", MarketIdArg>>
      [] op = "getTokenHolders" -> <<"/api/v1/token/holders">>
      [] op = "getTokenMarkets" -> <<"/api/v1/token/markets">>
      [] op = "getTokenMetadata" -> <<"/api/v1/token/metadata">>
      [] op = "getTokenSymbol" -> <<"/api/v1/token/symbol">>
      [] op = "getTopTraders" -> <<"/api/v1/token/top-traders">>
      [] op = "searchTokens" -> <<"/api/v1/token/search">>
      [] op = "getWalletHoldings" -> <<"/wallet/holdings">>
      [] op = "getWalletAggregatedPnl" -> <<"/wallet/aggregated-pnl">>
      [] op = "getWalletPnl" -> <<"/wallet/pnl">>
      [] op = "getTokenPairs" -> <<"/token/pairs">>

\* Mutant: getTokenMarket sends its defaults even when the caller passes values.
Params_MarketDefaultsOnly(op, a) ==
    CASE op = "getChainIds" -> Undef
      [] op = "getTokenAth" -> Def([chainID |-> a.chainId[1], marketID |-> MarketIdArg])
      [] op = "getTokenMarket" ->
           Def([chainID |-> DefaultChainId, interval |-> DefaultInterval])
      [] op = "getTokenHolders" -> Def([marketID |-> MarketIdArg, chainID |-> a.chainId[1]])
      [] op = "getTokenMarkets" -> Def([tokenMint |-> TokenMintArg, chainID |-> a.chainId[1]])
      [] op = "getTokenMetadata" -> Def([chainID |-> a.chainId[1], tokenMint |-> TokenMintArg])
      [] op = "getTokenSymbol" -> Def([chainID |-> a.chainId[1], tokenMint |-> TokenMintArg])
      [] op = "getTopTraders" -> Def([marketID |-> MarketIdArg, chainID |-> a.chainId[1]])
      [] op = "searchTokens" ->
           IF a.chainId # Undef
           THEN Def([criteria |-> CriteriaArg, chainID |-> a.chainId[1]])
           ELSE Def([criteria |-> CriteriaArg])
      [] op = "getWalletHoldings" ->
           Def([walletAddress |-> WalletArg, chainID |-> a.chainId[1]])
      [] op = "getWalletAggregatedPnl" ->
           Def([walletAddress |-> WalletArg, chainID |-> a.chainId[1]])
      [] op = "getWalletPnl" ->
           Def([walletAddress |-> WalletArg, marketID |-> MarketIdArg,
                chainID |-> a.chainId[1]])
      [] op = "getTokenPairs" -> Def(PairsArg)

\* The query parameters each operation passes to request(); getChainIds passes none.
Params(op, a) ==
    CASE op = "getChainIds" -> Undef
      [] op = "getTokenAth" -> Def([chainID |-> a.chainId[1], marketID |-> MarketIdArg])
      [] op = "getTokenMarket" ->
           Def([chainID |-> IF a.chainId = Undef THEN DefaultChainId ELSE a.chainId[1],
                interval |-> IF a.interval = Undef THEN DefaultInterval ELSE a.interval[1]])
      [] op = "getTokenHolders" -> Def([marketID |-> MarketIdArg, chainID |-> a.chainId[1]])
      [] op = "getTokenMarkets" -> Def([tokenMint |-> TokenMintArg, chainID |-> a.chainId[1]])
      [] op = "getTokenMetadata" -> Def([chainID |-> a.chainId[1], tokenMint |-> TokenMintArg])
      [] op = "getTokenSymbol" -> Def([chainID |-> a.chainId[1], tokenMint |-> TokenMintArg])
      [] op = "getTopTraders" -> Def([marketID |-> MarketIdArg, chainID |-> a.chainId[1]])
      [] op = "searchTokens" ->
           IF a.chainId # Undef
           THEN Def([criteria |-> CriteriaArg, chainID |-> a.chainId[1]])
           ELSE Def([criteria |-> CriteriaArg])
      [] op = "getWalletHoldings" ->
           Def([walletAddress |-> WalletArg, chainID |-> a.chainId[1]])
      [] op = "getWalletAggregatedPnl" ->
           Def([walletAddress |-> WalletArg, chainID |-> a.chainId[1]])
      [] op = "getWalletPnl" ->
           Def([walletAddress |-> WalletArg, marketID |-> MarketIdArg,
                chainID |-> a.chainId[1]])
      [] op = "getTokenPairs" -> Def(PairsArg)

\* Mutant: getTokenHolders hands the server's payload back as it came.
ResultOf_PayloadUnmapped(op, envelope) == envelope.data

\* What each operation returns from the envelope request() resolved with.
ResultOf(op, envelope) ==
    IF op = "getTokenHolders"
    THEN [holders |-> envelope.data.holders, totalHolders |-> envelope.data.total_holders]
    ELSE envelope.data

\* --------------------------------------------------- REST: request wrapper

\* Mutant: the server-error range starts above 500, and a failure without a response
\* is reported as a generic API error.
requestError_RangeOffByOne(err) ==
    IF err.type = "response"
    THEN IF err.status = 401
         THEN AuthenticationError("Invalid or expired API key", Def(err.status), err.data)
         ELSE IF err.status = 429
         THEN RateLimitError("Rate limit exceeded",
                             parseFloat(RetryAfterOperand(err.retryAfter)))
         ELSE IF err.status > 500 /\ err.status < 600
         THEN ServerError("Server error", Def(err.status), err.data)
         ELSE VyperApiError("HTTP error occurred", Def(err.status), err.data)
    ELSE VyperApiError("An error occurred", Undef, Undef)

\* The catch block of request(): the error thrown for a failed axios request.
requestError(err) ==
    IF err.type = "response"
    THEN IF err.status = 401
         THEN AuthenticationError("Invalid or expired API key", Def(err.status), err.data)
         ELSE IF err.status = 429
         THEN RateLimitError("Rate limit exceeded",
                             parseFloat(RetryAfterOperand(err.retryAfter)))
         ELSE IF err.status >= 500 /\ err.status < 600
         THEN ServerError("Server error", Def(err.status), err.data)
         ELSE VyperApiError("HTTP error occurred", Def(err.status), err.data)
    ELSE IF err.message = "Network Error"
         THEN ServerError("Server error: Network Error", Undef, Undef)
         ELSE ServerError("An error occurred", Undef, Undef)

\* Mutant: a 429 answer is retried once before it is reported.
requestSettles_RetryOn429(res, nreq) == ~(res.status = 429 /\ nreq < 2)

\* Whether request() is over once axios has answered its nreq-th request: it awaits one
\* axios request and then returns response.data or throws, with no loop around it.
requestSettles(res, nreq) == TRUE

\* Mutant: the request never carries the default header.
AxiosRequest_HeaderDropped(method, endpoint, params, defaultHeader) ==
    [method |-> method, url |-> endpoint, params |-> params, xApiKey |-> Undefined]

\* The request handed to axios: axios merges the instance's default headers into the
\* request's configuration when request() is called, before the await suspends.
AxiosRequest(method, endpoint, params, defaultHeader) ==
    [method |-> method, url |-> endpoint, params |-> params, xApiKey |-> defaultHeader]

\* Mutant: the finally block is missing, the header stays deleted.
RestoredHeader_Never(originalApiKey, header) == header

\* What the try / finally of getChainIds leaves in the default headers: the saved value
\* is written back when it is truthy.
RestoredHeader(originalApiKey, header) ==
    IF Truthy(originalApiKey) THEN originalApiKey ELSE header

NotApplicable == "n/a"

NoOutcome == [ok |-> FALSE, value |-> Undef, error |-> Undef]

\* No answer of axios belongs to the step.
NoAnswer ==
    [type |-> "none", status |-> 0, data |-> Undef, retryAfter |-> Undef, message |-> ""]

RestIdle ==
    [ev |-> "none", op |-> "", requests |-> <<>>, outcome |-> NoOutcome, nreq |-> 0,
     originalApiKey |-> NotApplicable, res |-> NoAnswer]

\* The constructor: the key is kept, and sent as a default header when it is truthy.
RestInit ==
    /\ FeedInit
    /\ apiKey \in ApiKeys
    /\ xApiKeyHeader = IF Truthy(apiKey) THEN apiKey ELSE Undefined
    /\ inflight = EmptyBag
    /\ last = RestIdle

\* A caller invokes `op`: the operation runs up to the await of its request. An
\* operation that requires the key and finds none throws before request() is called.
Invoke(op, a) ==
    IF RequiresApiKey(op) /\ ~Truthy(apiKey)
    THEN /\ last' = [ev |-> "invoke", op |-> op, requests |-> <<>>,
                     outcome |-> Thrown(AuthenticationError(
                                    "API key is required for this endpoint", Undef, Undef)),
                     nreq |-> 0, originalApiKey |-> NotApplicable, res |-> NoAnswer]
         /\ UNCHANGED <<apiKey, xApiKeyHeader, inflight>>
         /\ UNCHANGED feedVars
    ELSE /\ BagCardinality(inflight) < MaxInFlight
         /\ LET originalApiKey == IF op = "getChainIds" THEN xApiKeyHeader ELSE NotApplicable
                header == IF op = "getChainIds" THEN Undefined ELSE xApiKeyHeader
                req == AxiosRequest("GET", Endpoint(op), Params(op, a), header)
            IN  /\ xApiKeyHeader' = header
                /\ inflight' = inflight (+) SetToBag({[op |-> op, nreq |-> 1,
                                                       originalApiKey |-> originalApiKey]})
                /\ last' = [ev |-> "invoke", op |-> op, requests |-> <<req>>,
                            outcome |-> NoOutcome, nreq |-> 1,
                            originalApiKey |-> originalApiKey, res |-> NoAnswer]
         /\ UNCHANGED apiKey
         /\ UNCHANGED feedVars

\* axios answers the request of the suspended call c with res, and the call resumes:
\* request() returns the envelope or throws the classified error, getChainIds runs its
\* finally block, and the operation returns or rethrows.
Settle(c, res) ==
    /\ c \in BagToSet(inflight)
    /\ IF requestSettles(res, c.nreq)
       THEN /\ inflight' = inflight (-) SetToBag({c})
            /\ xApiKeyHeader' = IF c.op = "getChainIds"
                                THEN RestoredHeader(c.originalApiKey, xApiKeyHeader)
                                ELSE xApiKeyHeader
            /\ last' = [ev |-> "settle", op |-> c.op, requests |-> <<>>,
                        outcome |-> IF res.type = "ok"
                                    THEN Returned(ResultOf(c.op, res.data[1]))
                                    ELSE Thrown(requestError(res)),
                        nreq |-> c.nreq, originalApiKey |-> c.originalApiKey,
                        res |-> res]
       ELSE /\ inflight' = (inflight (-) SetToBag({c}))
                             (+) SetToBag({[c EXCEPT !.nreq = c.nreq + 1]})
            /\ xApiKeyHeader' = xApiKeyHeader
            /\ last' = [ev |-> "resend", op |-> c.op,
                        requests |-> <<AxiosRequest("GET", Endpoint(c.op), Undef,
                                                    xApiKeyHeader)>>,
                        outcome |-> NoOutcome, nreq |-> c.nreq + 1,
                        originalApiKey |-> c.originalApiKey, res |-> res]
    /\ UNCHANGED apiKey
    /\ UNCHANGED feedVars

RestNext ==
    \/ \E op \in Ops : \E a \in ArgsFor(op) : Invoke(op, a)
    \/ \E c \in BagToSet(inflight) : \E res \in HttpOutcomes(c.op) : Settle(c, res)

\* ------------------------------------------------------------ feed: inputs

TOKEN_EVENTS == "token-events"
MIGRATION_EVENTS == "migration-events"
WALLET_EVENTS == "wallet-events"

FeedTypes == {TOKEN_EVENTS, MIGRATION_EVENTS, WALLET_EVENTS}

WsBaseUrl == "wss://api.vyper.trade/api/v1/ws"

\* The key the feed client was constructed with.
WsApiKey == "key-A"

\* Control messages: TokenSubscriptionMessage and WalletSubscriptionMessage.
SubscriptionMessages ==
    { [action |-> "subscribe", types |-> <<"PumpfunTokens", "RaydiumAmmTokens">>],
      [action |-> "unsubscribe", wallets |-> <<"wallet-1">>] }

\* Callbacks a caller may register; the second one throws when it is called.
MessageHandlers == {"handler-1", "handler-throws"}

HandlerThrows(h) == h = "handler-throws"

\* -------------------------------------------------------------- feed: JSON

\* A JSON text is a sequence of tokens: the punctuation { } [ ] : , and strings.

RECURSIVE JoinItems(_)
JoinItems(items) ==
    IF items = <<>> THEN <<>>
    ELSE IF Len(items) = 1 THEN <<items[1]>>
    ELSE <<items[1], ",">> \o JoinItems(Tail(items))

\* JSON.stringify of a control message: its properties in the order of the interfaces.
JSON_stringify(msg) ==
    LET listKey == IF "types" \in DOMAIN msg THEN "types" ELSE "wallets"
    IN  <<"{", "action", ":", msg.action, ",", listKey, ":", "[">>
        \o JoinItems(msg[listKey]) \o <<"]", "}">>

Punctuation == {"{", "}", "[", "]", ":", ","}

\* The members of an object text, after its opening brace: [ok, obj, rest].
RECURSIVE ParseMembers(_, _)
ParseMembers(tokens, obj) ==
    IF Len(tokens) >= 4 /\ tokens[1] \notin Punctuation /\ tokens[2] = ":"
          /\ tokens[3] \notin Punctuation
    THEN LET key == tokens[1]
             extended == [k \in DOMAIN obj \cup {key} |->
                             IF k = key THEN tokens[3] ELSE obj[k]]
         IN  IF tokens[4] = "}" /\ Len(tokens) = 4
             THEN [ok |-> TRUE, obj |-> extended]
             ELSE IF tokens[4] = ","
             THEN ParseMembers(SubSeq(tokens, 5, Len(tokens)), extended)
             ELSE [ok |-> FALSE, obj |-> obj]
    ELSE [ok |-> FALSE, obj |-> obj]

EmptyObject == [k \in {} |-> ""]

\* JSON.parse of an inbound text: a flat object of string members, or null; anything
\* else is a SyntaxError. [ok, isNull, obj]
JSON_parse(tokens) ==
    IF tokens = <<"null">> THEN [ok |-> TRUE, isNull |-> TRUE, obj |-> EmptyObject]
    ELSE IF tokens = <<"{", "}">> THEN [ok |-> TRUE, isNull |-> FALSE, obj |-> EmptyObject]
    ELSE IF tokens # <<>> /\ Head(tokens) = "{"
    THEN LET r == ParseMembers(Tail(tokens), EmptyObject)
         IN  [ok |-> r.ok, isNull |-> FALSE, obj |-> r.obj]
    ELSE [ok |-> FALSE, isNull |-> FALSE, obj |-> EmptyObject]

\* ------------------------------------------------- feed: message conversion

ChainActionFields ==
    {"signer", "tokenAccount", "transactionId", "tokenMint", "marketId", "actionType",
     "tokenAmount", "assetAmount", "tokenPriceUsd", "tokenPriceAsset", "swapTotalUsd",
     "swapTotalAsset", "tokenMarketCapAsset", "tokenMarketCapUsd", "tokenLiquidityAsset",
     "tokenLiquidityUsd", "pooledToken", "pooledAsset", "actionTimestamp",
     "bondingCurvePercentage", "botUsed"}

TokenPairFields ==
    {"abused", "bondingCurvePercentage", "buyTxnCount", "chainId", "contractCreator",
     "createdTimestamp", "description", "freezeAuthority", "image",
     "initialAssetLiquidity", "initialUsdLiquidity", "isMigrated", "lpBurned",
     "lpCreator", "marketId", "metadataUri", "migratedMarketId", "migrationState",
     "mintAuthority", "name", "pooledAsset", "pooledToken", "priceChangePercent",
     "sellTxnCount", "symbol", "telegram", "tokenLiquidityAsset", "tokenLiquidityUsd",
     "tokenMarketCapAsset", "tokenMarketCapUsd", "tokenMint", "tokenPriceAsset",
     "tokenPriceUsd", "tokenType", "top10HoldingPercent", "totalSupply",
     "transactionCount", "twitter", "volumeAsset", "volumeUsd", "website"}

\* An object literal { f: data.f, ... }: a member the payload lacks is undefined.
PickFields(fields, data) ==
    [f \in fields |-> IF f \in DOMAIN data THEN data[f] ELSE Undefined]

convertToChainAction(data) == PickFields(ChainActionFields, data)

convertToTokenPair(data) == PickFields(TokenPairFields, data)

\* Mutant: the migration feed is converted as a chain action.
convertMessage_MigrationAsChainAction(parsed, feedType) ==
    IF parsed.isNull THEN [ok |-> FALSE, record |-> [k \in {} |-> ""]]
    ELSE IF feedType \in {WALLET_EVENTS, MIGRATION_EVENTS}
    THEN [ok |-> TRUE, record |-> convertToChainAction(parsed.obj)]
    ELSE [ok |-> TRUE, record |-> convertToTokenPair(parsed.obj)]

\* convertMessage: [ok, record]; it throws for an unknown feed type, and reading a
\* member of null throws in either conversion.
convertMessage(parsed, feedType) ==
    IF parsed.isNull THEN [ok |-> FALSE, record |-> EmptyObject]
    ELSE IF feedType = WALLET_EVENTS
    THEN [ok |-> TRUE, record |-> convertToChainAction(parsed.obj)]
    ELSE IF feedType \in {MIGRATION_EVENTS, TOKEN_EVENTS}
    THEN [ok |-> TRUE, record |-> convertToTokenPair(parsed.obj)]
    ELSE [ok |-> FALSE, record |-> EmptyObject]

\* Inbound frames: the data of a 'message' event is a Buffer, an ArrayBuffer, a list of
\* Buffer fragments, or something else; `chunks` holds its text.
WalletText ==
    <<"{", "signer", ":", "s-1", ",", "marketId", ":", "m-1", ",", "botUsed", ":", "b-1", "}">>

PairText == <<"{", "name", ":", "n-1", ",", "marketId", ":", "m-2", "}">>

ExtraText == <<"{", "marketId", ":", "m-3", ",", "unlisted", ":", "u-1", "}">>

InboundFrames ==
    { [kind |-> "Buffer", chunks |-> <<t>>] :
          t \in {WalletText, PairText, ExtraText, <<"null">>, <<"{", "signer", ":">>} }
    \cup { [kind |-> "ArrayBuffer", chunks |-> <<WalletText>>],
           [kind |-> "BufferArray",
            chunks |-> <<SubSeq(PairText, 1, 4), SubSeq(PairText, 5, Len(PairText))>>],
           [kind |-> "string", chunks |-> <<WalletText>>] }

RECURSIVE Concat(_)
Concat(chunks) == IF chunks = <<>> THEN <<>> ELSE Head(chunks) \o Concat(Tail(chunks))

\* The text the message listener decodes: [ok, text]; data of another type throws.
DecodeFrame(data) ==
    IF data.kind = "Buffer" THEN [ok |-> TRUE, text |-> data.chunks[1]]
    ELSE IF data.kind = "ArrayBuffer" THEN [ok |-> TRUE, text |-> data.chunks[1]]
    ELSE IF data.kind = "BufferArray" THEN [ok |-> TRUE, text |-> Concat(data.chunks)]
    ELSE [ok |-> FALSE, text |-> <<>>]

\* ------------------------------------------------- feed: promises, listeners

\* resolve() and reject() of a promise: the first settlement stands, later ones are
\* ignored.
Resolve(ps, p) ==
    IF ps[p].state = "pending" THEN [ps EXCEPT ![p].state = "resolved"] ELSE ps

Reject(ps, p, message) ==
    IF ps[p].state = "pending"
    THEN [ps EXCEPT ![p].state = "rejected", ![p].error = message]
    ELSE ps

Listener(event, owner, p) == [event |-> event, owner |-> owner, promise |-> p]

\* Mutant: connect registers no error listener.
ConnectListeners_NoError(p) == <<Listener("open", "connect", p)>>

\* Mutant: listen registers no close listener.
ListenListeners_NoClose(p) ==
    <<Listener("open", "listen", p), Listener("message", "listen", p),
      Listener("error", "listen", p)>>

\* Mutant: disconnect registers no error listener.
DisconnectListeners_NoError(p) == <<Listener("close", "disconnect", p)>>

\* The listeners each operation adds with connection.on(...), in the order it adds them.
ConnectListeners(p) == <<Listener("open", "connect", p), Listener("error", "connect", p)>>

ListenListeners(p) ==
    <<Listener("open", "listen", p), Listener("message", "listen", p),
      Listener("close", "listen", p), Listener("error", "listen", p)>>

DisconnectListeners(p) ==
    <<Listener("close", "disconnect", p), Listener("error", "disconnect", p)>>

\* Mutant: a frame that fails to parse or to map rejects the promises of listen() and
\* drops the handle.
OnMessage_FailureStopsListening(ctx, data) ==
    IF messageHandler = Undefined THEN ctx
    ELSE LET decoded == DecodeFrame(data)
             parsed == JSON_parse(decoded.text)
             converted == convertMessage(parsed, currentFeedType)
         IN  IF ~decoded.ok \/ ~parsed.ok \/ ~converted.ok
             THEN [ctx EXCEPT !.logged = @ + 1, !.connection = NoSocket]
             ELSE [ctx EXCEPT
                      !.delivered = Append(@, [handler |-> messageHandler,
                                              record |-> converted.record]),
                      !.logged = IF HandlerThrows(messageHandler) THEN @ + 1 ELSE @]

\* Mutant: the message listener calls the handler without testing that one is registered.
OnMessage_HandlerUnchecked(ctx, data) ==
    LET decoded == DecodeFrame(data)
        parsed == JSON_parse(decoded.text)
        converted == convertMessage(parsed, currentFeedType)
    IN  IF ~decoded.ok \/ ~parsed.ok \/ ~converted.ok
        THEN [ctx EXCEPT !.logged = @ + 1]
        ELSE [ctx EXCEPT
                 !.delivered = Append(@, [handler |-> messageHandler,
                                         record |-> converted.record]),
                 !.logged = IF messageHandler = Undefined \/ HandlerThrows(messageHandler)
                            THEN @ + 1 ELSE @]

\* Mutant: the handler is called outside the try block, so what it throws is not caught
\* and not logged.
OnMessage_HandlerThrowUncaught(ctx, data) ==
    IF messageHandler = Undefined THEN ctx
    ELSE LET decoded == DecodeFrame(data)
             parsed == JSON_parse(decoded.text)
             converted == convertMessage(parsed, currentFeedType)
         IN  IF ~decoded.ok \/ ~parsed.ok \/ ~converted.ok
             THEN [ctx EXCEPT !.logged = @ + 1]
             ELSE [ctx EXCEPT
                      !.delivered = Append(@, [handler |-> messageHandler,
                                              record |-> converted.record])]

\* The message listener of listen(), run for one frame with the handler and the feed
\* type the client holds at that moment. ctx carries what the listeners of one event
\* change: the promises, the handle, the records handed over, the errors logged.
OnMessage(ctx, data) ==
    IF messageHandler = Undefined THEN ctx
    ELSE LET decoded == DecodeFrame(data)
             parsed == JSON_parse(decoded.text)
             converted == convertMessage(parsed, currentFeedType)
         IN  IF ~decoded.ok \/ ~parsed.ok \/ ~converted.ok
             THEN [ctx EXCEPT !.logged = @ + 1]
             ELSE [ctx EXCEPT
                      !.delivered = Append(@, [handler |-> messageHandler,
                                              record |-> converted.record]),
                      !.logged = IF HandlerThrows(messageHandler) THEN @ + 1 ELSE @]

\* Mutant: the message listener of listen() handles frames only while the promise of its
\* listen() call is pending.
RunListener_MessagesUntilSettled(l, ctx, data) ==
    CASE l.owner = "connect" /\ l.event = "open" ->
           [ctx EXCEPT !.promises = Resolve(@, l.promise)]
      [] l.owner = "connect" /\ l.event = "error" ->
           [ctx EXCEPT !.promises = Reject(@, l.promise, "Failed to connect")]
      [] l.owner = "listen" /\ l.event = "open" ->
           [ctx EXCEPT !.promises = Resolve(@, l.promise)]
      [] l.owner = "listen" /\ l.event = "message" ->
           IF ctx.promises[l.promise].state = "pending" THEN OnMessage(ctx, data) ELSE ctx
      [] l.owner = "listen" /\ l.event = "close" ->
           [ctx EXCEPT !.promises = Reject(@, l.promise, "Connection closed unexpectedly")]
      [] l.owner = "listen" /\ l.event = "error" ->
           [ctx EXCEPT !.promises =
                          Reject(@, l.promise, "Error while listening to messages")]
      [] l.owner = "disconnect" /\ l.event = "close" ->
           [ctx EXCEPT !.connection = NoSocket, !.promises = Resolve(@, l.promise)]
      [] l.owner = "disconnect" /\ l.event = "error" ->
           [ctx EXCEPT !.promises = Reject(@, l.promise, "Failed to disconnect")]

\* One listener called for an event of its socket.
RunListener(l, ctx, data) ==
    CASE l.owner = "connect" /\ l.event = "open" ->
           [ctx EXCEPT !.promises = Resolve(@, l.promise)]
      [] l.owner = "connect" /\ l.event = "error" ->
           [ctx EXCEPT !.promises = Reject(@, l.promise, "Failed to connect")]
      [] l.owner = "listen" /\ l.event = "open" ->
           [ctx EXCEPT !.promises = Resolve(@, l.promise)]
      [] l.owner = "listen" /\ l.event = "message" -> OnMessage(ctx, data)
      [] l.owner = "listen" /\ l.event = "close" ->
           [ctx EXCEPT !.promises = Reject(@, l.promise, "Connection closed unexpectedly")]
      [] l.owner = "listen" /\ l.event = "error" ->
           [ctx EXCEPT !.promises =
                          Reject(@, l.promise, "Error while listening to messages")]
      [] l.owner = "disconnect" /\ l.event = "close" ->
           [ctx EXCEPT !.connection = NoSocket, !.promises = Resolve(@, l.promise)]
      [] l.owner = "disconnect" /\ l.event = "error" ->
           [ctx EXCEPT !.promises = Reject(@, l.promise, "Failed to disconnect")]

\* emit(event): the socket's listeners for the event run in registration order.
RECURSIVE Emit(_, _, _, _)
Emit(listeners, event, ctx, data) ==
    IF listeners = <<>> THEN ctx
    ELSE Emit(Tail(listeners), event,
              IF Head(listeners).event = event
              THEN RunListener(Head(listeners), ctx, data)
              ELSE ctx,
              data)

NoData == [kind |-> "none", chunks |-> <<>>]

EmitContext ==
    [promises |-> promises, connection |-> connection, delivered |-> <<>>, logged |-> 0]

\* --------------------------------------------------------- feed: the socket

\* new WebSocket(url): connecting, no listener yet. `events` is the history of the open,
\* error and close events the socket has reported.
NewSocket(url) ==
    [url |-> url, readyState |-> "CONNECTING", listeners |-> <<>>, events |-> <<>>]

\* A promise returned by connect, listen or disconnect for socket s; `after` is the
\* number of events the socket had reported when the operation was called.
NewPromise(op, s, after) ==
    [op |-> op, socket |-> s, state |-> "pending", error |-> "", after |-> after]

\* Whether socket.send / ping / pong may throw, by the socket's state: the socket
\* accepts a frame while open, refuses one while connecting, and may do either once it
\* is closing or closed.
SendResults(readyState) ==
    CASE readyState = "OPEN" -> {"sent"}
      [] readyState = "CONNECTING" -> {"throws"}
      [] OTHER -> {"sent", "throws"}

\* The socket reports an event: its state changes, the event joins its history, and its
\* listeners run.
SocketEvent(s, event, readyState, data) ==
    LET ctx == Emit(sockets[s].listeners, event, EmitContext, data)
    IN  /\ sockets' = [sockets EXCEPT
                          ![s].readyState = readyState,
                          ![s].events = IF event = "message" THEN @ ELSE Append(@, event)]
        /\ promises' = ctx.promises
        /\ connection' = ctx.connection
        /\ wsLast' = [FeedIdle EXCEPT !.ev = event, !.message = data, !.socket = s,
                                      !.delivered = ctx.delivered, !.logged = ctx.logged]
        /\ UNCHANGED <<currentFeedType, messageHandler>>
        /\ UNCHANGED restVars

SocketOpen(s) ==
    /\ sockets[s].readyState = "CONNECTING"
    /\ SocketEvent(s, "open", "OPEN", NoData)

\* An error is reported at most once, and the socket is on its way to closed after it.
SocketError(s) ==
    /\ sockets[s].readyState \in {"CONNECTING", "OPEN", "CLOSING"}
    /\ \A i \in DOMAIN sockets[s].events : sockets[s].events[i] # "error"
    /\ SocketEvent(s, "error", "CLOSING", NoData)

SocketClose(s) ==
    /\ sockets[s].readyState \in {"OPEN", "CLOSING"}
    /\ SocketEvent(s, "close", "CLOSED", NoData)

SocketMessage(s, data) ==
    /\ sockets[s].readyState = "OPEN"
    /\ SocketEvent(s, "message", "OPEN", data)

\* ------------------------------------------------------ feed: operations

\* connect(feedType): the feed type is recorded, a socket is created for the feed's URL
\* and becomes the handle, and its open and error listeners settle the returned promise.
\* The model stops creating sockets and promises at the bounds it is given.
ConnectWithin(maxSockets, maxPromises, feedType) ==
    /\ Len(sockets) < maxSockets
    /\ Len(promises) < maxPromises
    /\ LET s == Len(sockets) + 1
           p == Len(promises) + 1
           created == NewSocket(<<WsBaseUrl, feedType, WsApiKey>>)
       IN  /\ currentFeedType' = feedType
           /\ connection' = s
           /\ sockets' = Append(sockets, [created EXCEPT !.listeners = ConnectListeners(p)])
           /\ promises' = Append(promises, NewPromise("connect", s, 0))
           /\ wsLast' = [FeedIdle EXCEPT !.ev = "call", !.op = "connect",
                                         !.result = "pending"]
    /\ UNCHANGED messageHandler
    /\ UNCHANGED restVars

Connect(feedType) == ConnectWithin(MaxSockets, MaxPromises, feedType)

\* What subscribe and unsubscribe do once the handle exists: the message goes out, as
\* JSON, for the token and wallet feeds only; `sendResult` is what socket.send does.
SendsControlFrame(feedType) == feedType = TOKEN_EVENTS \/ feedType = WALLET_EVENTS

ControlCall(op, failure, feedType, msg, sendResult) ==
    /\ wsLast' =
          IF connection = NoSocket
          THEN [FeedIdle EXCEPT !.ev = "call", !.op = op,
                                !.feed = feedType, !.message = msg,
                                !.result = "rejected",
                                !.error = "Not connected to WebSocket"]
          ELSE IF ~SendsControlFrame(feedType)
          THEN [FeedIdle EXCEPT !.ev = "call", !.op = op, !.feed = feedType,
                                !.message = msg, !.result = "resolved"]
          ELSE IF sendResult = "throws"
          THEN [FeedIdle EXCEPT !.ev = "call", !.op = op, !.feed = feedType,
                                !.message = msg, !.result = "rejected",
                                !.error = failure]
          ELSE [FeedIdle EXCEPT !.ev = "call", !.op = op, !.feed = feedType,
                                !.message = msg, !.result = "resolved",
                                !.frames = <<JSON_stringify(msg)>>]
    /\ UNCHANGED <<connection, currentFeedType, messageHandler, sockets, promises>>
    /\ UNCHANGED restVars

\* The results socket.send can have for the handle; none is asked for without a handle.
HandleSendResults ==
    IF connection = NoSocket THEN {"sent"} ELSE SendResults(sockets[connection].readyState)

Subscribe(feedType, msg) ==
    \E r \in HandleSendResults : ControlCall("subscribe", "Failed to subscribe", feedType, msg, r)

Unsubscribe(feedType, msg) ==
    \E r \in HandleSendResults :
        ControlCall("unsubscribe", "Failed to unsubscribe", feedType, msg, r)

\* Mutant: ping and pong lose their check of the handle.
HeartbeatCall_Unchecked(op, failure, sendResult) ==
    /\ wsLast' = [FeedIdle EXCEPT !.ev = "call", !.op = op, !.result = "resolved",
                                  !.frames = <<<<op>>>>]
    /\ UNCHANGED <<connection, currentFeedType, messageHandler, sockets, promises>>
    /\ UNCHANGED restVars

\* Mutant: listen() takes the message listeners of earlier listen() calls off the socket
\* before it adds its own.
ListenWithin_ReplacesMessageListener(maxPromises) ==
    /\ IF connection = NoSocket
       THEN /\ wsLast' = [FeedIdle EXCEPT !.ev = "call", !.op = "listen",
                                          !.result = "rejected",
                                          !.error = "Not connected to WebSocket"]
            /\ UNCHANGED <<sockets, promises>>
       ELSE /\ Len(promises) < maxPromises
            /\ LET p == Len(promises) + 1
                   s == connection
                   NotMessage(l) == l.event # "message"
               IN  /\ sockets' = [sockets EXCEPT
                                     ![s].listeners =
                                         SelectSeq(@, NotMessage) \o ListenListeners(p)]
                   /\ promises' = Append(promises,
                                         NewPromise("listen", s, Len(sockets[s].events)))
                   /\ wsLast' = [FeedIdle EXCEPT !.ev = "call", !.op = "listen",
                                                 !.result = "pending"]
    /\ UNCHANGED <<connection, currentFeedType, messageHandler>>
    /\ UNCHANGED restVars

\* Mutant: listen() called on a socket that is already open returns a resolved promise.
ListenWithin_ResolvedWhenOpen(maxPromises) ==
    /\ IF connection = NoSocket
       THEN /\ wsLast' = [FeedIdle EXCEPT !.ev = "call", !.op = "listen",
                                          !.result = "rejected",
                                          !.error = "Not connected to WebSocket"]
            /\ UNCHANGED <<sockets, promises>>
       ELSE /\ Len(promises) < maxPromises
            /\ LET p == Len(promises) + 1
                   s == connection
                   created == NewPromise("listen", s, Len(sockets[s].events))
               IN  /\ sockets' = [sockets EXCEPT
                                     ![s].listeners = @ \o ListenListeners(p)]
                   /\ promises' = Append(promises,
                                         IF sockets[s].readyState = "OPEN"
                                         THEN [created EXCEPT !.state = "resolved"]
                                         ELSE created)
                   /\ wsLast' = [FeedIdle EXCEPT !.ev = "call", !.op = "listen",
                                                 !.result = "pending"]
    /\ UNCHANGED <<connection, currentFeedType, messageHandler>>
    /\ UNCHANGED restVars

\* listen(): without a handle it rejects; with one it adds its four listeners to the
\* handle's socket and returns a promise they settle.
ListenWithin(maxPromises) ==
    /\ IF connection = NoSocket
       THEN /\ wsLast' = [FeedIdle EXCEPT !.ev = "call", !.op = "listen",
                                          !.result = "rejected",
                                          !.error = "Not connected to WebSocket"]
            /\ UNCHANGED <<sockets, promises>>
       ELSE /\ Len(promises) < maxPromises
            /\ LET p == Len(promises) + 1
                   s == connection
               IN  /\ sockets' = [sockets EXCEPT
                                     ![s].listeners = @ \o ListenListeners(p)]
                   /\ promises' = Append(promises,
                                         NewPromise("listen", s, Len(sockets[s].events)))
                   /\ wsLast' = [FeedIdle EXCEPT !.ev = "call", !.op = "listen",
                                                 !.result = "pending"]
    /\ UNCHANGED <<connection, currentFeedType, messageHandler>>
    /\ UNCHANGED restVars

Listen == ListenWithin(MaxPromises)

\* socket.close(): an open or connecting socket starts closing.
ClosedBy(readyState) ==
    IF readyState \in {"CONNECTING", "OPEN"} THEN "CLOSING" ELSE readyState

\* Mutant: disconnect() takes the listeners of listen() off the socket before it closes
\* it.
DisconnectCallWithin_ListenersRemoved(maxPromises, op) ==
    /\ IF connection = NoSocket
       THEN /\ wsLast' = [FeedIdle EXCEPT !.ev = "call", !.op = op,
                                          !.result = "resolved"]
            /\ UNCHANGED <<sockets, promises>>
       ELSE /\ Len(promises) < maxPromises
            /\ LET p == Len(promises) + 1
                   s == connection
                   NotOfListen(l) == l.owner # "listen"
               IN  /\ sockets' = [sockets EXCEPT
                                     ![s].readyState = ClosedBy(@),
                                     ![s].listeners =
                                         SelectSeq(@, NotOfListen)
                                             \o DisconnectListeners(p)]
                   /\ promises' = Append(promises,
                                         NewPromise("disconnect", s,
                                                    Len(sockets[s].events)))
                   /\ wsLast' = [FeedIdle EXCEPT !.ev = "call", !.op = op,
                                                 !.result = "pending"]
    /\ UNCHANGED <<connection, currentFeedType, messageHandler>>
    /\ UNCHANGED restVars

\* disconnect(): without a handle it resolves at once; with one it closes the socket and
\* adds the close and error listeners that settle the returned promise. cleanup() awaits
\* disconnect() under the same condition.
DisconnectCallWithin(maxPromises, op) ==
    /\ IF connection = NoSocket
       THEN /\ wsLast' = [FeedIdle EXCEPT !.ev = "call", !.op = op,
                                          !.result = "resolved"]
            /\ UNCHANGED <<sockets, promises>>
       ELSE /\ Len(promises) < maxPromises
            /\ LET p == Len(promises) + 1
                   s == connection
               IN  /\ sockets' = [sockets EXCEPT
                                     ![s].readyState = ClosedBy(@),
                                     ![s].listeners = @ \o DisconnectListeners(p)]
                   /\ promises' = Append(promises,
                                         NewPromise("disconnect", s,
                                                    Len(sockets[s].events)))
                   /\ wsLast' = [FeedIdle EXCEPT !.ev = "call", !.op = op,
                                                 !.result = "pending"]
    /\ UNCHANGED <<connection, currentFeedType, messageHandler>>
    /\ UNCHANGED restVars

DisconnectCall(op) == DisconnectCallWithin(MaxPromises, op)

Disconnect == DisconnectCall("disconnect")

Cleanup == DisconnectCall("cleanup")

\* ping() and pong(): without a handle they reject; with one they send the protocol
\* frame, and a failure of the socket is wrapped.
HeartbeatCall(op, failure, sendResult) ==
    /\ wsLast' =
          IF connection = NoSocket
          THEN [FeedIdle EXCEPT !.ev = "call", !.op = op,
                                !.result = "rejected",
                                !.error = "Not connected to WebSocket"]
          ELSE IF sendResult = "throws"
          THEN [FeedIdle EXCEPT !.ev = "call", !.op = op, !.result = "rejected",
                                !.error = failure]
          ELSE [FeedIdle EXCEPT !.ev = "call", !.op = op, !.result = "resolved",
                                !.frames = <<<<op>>>>]
    /\ UNCHANGED <<connection, currentFeedType, messageHandler, sockets, promises>>
    /\ UNCHANGED restVars

Ping == \E r \in HandleSendResults : HeartbeatCall("ping", "Failed to send ping", r)

Pong == \E r \in HandleSendResults : HeartbeatCall("pong", "Failed to send pong", r)

\* Mutant: a handler once registered is never replaced.
SetMessageHandler_FirstWriteWins(handler) ==
    /\ messageHandler' = IF messageHandler = Undefined THEN handler ELSE messageHandler
    /\ wsLast' = [FeedIdle EXCEPT !.ev = "call", !.op = "setMessageHandler",
                                  !.message = [handler |-> handler,
                                               previous |-> messageHandler]]
    /\ UNCHANGED <<connection, currentFeedType, sockets, promises>>
    /\ UNCHANGED restVars

\* setMessageHandler(handler): the handler replaces the one registered. The step records
\* the handler given and the one it replaced.
SetMessageHandler(handler) ==
    /\ messageHandler' = handler
    /\ wsLast' = [FeedIdle EXCEPT !.ev = "call", !.op = "setMessageHandler",
                                  !.message = [handler |-> handler,
                                               previous |-> messageHandler]]
    /\ UNCHANGED <<connection, currentFeedType, sockets, promises>>
    /\ UNCHANGED restVars

\* The REST client is constructed and left alone.
IdleRestInit ==
    /\ apiKey = "key-A"
    /\ xApiKeyHeader = "key-A"
    /\ inflight = EmptyBag
    /\ last = RestIdle

FeedSpecInit == FeedInit /\ IdleRestInit

\* The caller's operations that create sockets and promises, and the socket's reports.
LifecycleNext ==
    \/ \E f \in FeedTypes : Connect(f)
    \/ Listen
    \/ Disconnect
    \/ Cleanup
    \/ \E s \in DOMAIN sockets : SocketOpen(s)
    \/ \E s \in DOMAIN sockets : SocketError(s)
    \/ \E s \in DOMAIN sockets : SocketClose(s)

\* The operations that hand a frame to the socket: they change nothing the client holds,
\* and only their outcome is observed.
ControlNext ==
    \/ \E f \in FeedTypes : \E m \in SubscriptionMessages : Subscribe(f, m)
    \/ \E f \in FeedTypes : \E m \in SubscriptionMessages : Unsubscribe(f, m)
    \/ Ping
    \/ Pong

\* The inbound side: the handler the caller registers and the frames the socket reports.
\* Neither changes the handle, a socket or a promise.
InboundNext ==
    \/ \E h \in MessageHandlers : SetMessageHandler(h)
    \/ \E s \in DOMAIN sockets : \E d \in InboundFrames : SocketMessage(s, d)

FeedNext == LifecycleNext \/ ControlNext

FeedInboundNext == LifecycleNext \/ InboundNext

\* A caller that connects again while calls on the earlier socket are outstanding:
\* connect, listen and disconnect up to the overlap bounds, and the sockets' reports.
OverlapNext ==
    \/ \E f \in FeedTypes : ConnectWithin(OverlapSockets, OverlapPromises, f)
    \/ ListenWithin(OverlapPromises)
    \/ DisconnectCallWithin(OverlapPromises, "disconnect")
    \/ \E s \in DOMAIN sockets : SocketOpen(s)
    \/ \E s \in DOMAIN sockets : SocketError(s)
    \/ \E s \in DOMAIN sockets : SocketClose(s)

\* One session: a caller that connects once, listens, and disconnects.
SessionNext ==
    \/ \E f \in FeedTypes : ConnectWithin(SessionSockets, SessionPromises, f)
    \/ ListenWithin(SessionPromises)
    \/ DisconnectCallWithin(SessionPromises, "disconnect")
    \/ \E s \in DOMAIN sockets : SocketOpen(s)
    \/ \E s \in DOMAIN sockets : SocketError(s)
    \/ \E s \in DOMAIN sockets : SocketClose(s)

\* One session of a caller that connects once and calls listen() more than once, with
\* the inbound side observed; the socket closes by itself.
SessionInboundNext ==
    \/ \E f \in FeedTypes : ConnectWithin(SessionSockets, SessionPromises, f)
    \/ ListenWithin(SessionPromises)
    \/ \E s \in DOMAIN sockets : SocketOpen(s)
    \/ \E s \in DOMAIN sockets : SocketError(s)
    \/ \E s \in DOMAIN sockets : SocketClose(s)
    \/ InboundNext

\* The same caller where the inbound side is observed.
OverlapInboundNext ==
    \/ \E f \in FeedTypes : ConnectWithin(OverlapSockets, OverlapInboundPromises, f)
    \/ ListenWithin(OverlapInboundPromises)
    \/ DisconnectCallWithin(OverlapInboundPromises, "disconnect")
    \/ \E s \in DOMAIN sockets : SocketOpen(s)
    \/ \E s \in DOMAIN sockets : SocketError(s)
    \/ \E s \in DOMAIN sockets : SocketClose(s)
    \/ InboundNext

\* --------------------------------------------------------- specifications

\* The REST client alone: the feed client is constructed and left untouched.
SpecRest == RestInit /\ [][RestNext]_vars

\* The feed client: its connection life cycle and its outbound operations.
SpecFeed == FeedSpecInit /\ [][FeedNext]_vars

\* The feed client: its connection life cycle and its inbound side.
SpecFeedInbound == FeedSpecInit /\ [][FeedInboundNext]_vars

\* The feed client: connection life cycles that overlap.
SpecFeedOverlap == FeedSpecInit /\ [][OverlapNext]_vars

\* The feed client: overlapping connections and their inbound side.
SpecFeedOverlapInbound == FeedSpecInit /\ [][OverlapInboundNext]_vars

\* The feed client: one session of connect, listen and disconnect.
SpecFeedSession == FeedSpecInit /\ [][SessionNext]_vars

\* The feed client: one session with repeated listen() calls and its inbound side.
SpecFeedSessionInbound == FeedSpecInit /\ [][SessionInboundNext]_vars

\* ------------------------------------------------------------ REST: claims

C1_Operations ==
    {"getTokenAth", "getTokenMarket", "getTokenHolders", "getTokenMarkets",
     "getTokenMetadata", "getTokenSymbol", "getTopTraders", "searchTokens"}

\* C1: on a client constructed without an API key (none, or the empty string), each of
\* getTokenAth, getTokenMarket, getTokenHolders, getTokenMarkets, getTokenMetadata,
\* getTokenSymbol, getTopTraders and searchTokens fails with an AuthenticationError
\* when invoked, issues no request in that step, and never has a request outstanding.
C1_NoKeyFailsLocally ==
    ~Truthy(apiKey) =>
        /\ \A c \in BagToSet(inflight) : c.op \notin C1_Operations
        /\ (last.ev # "none" /\ last.op \in C1_Operations) =>
              /\ last.ev = "invoke"
              /\ last.requests = <<>>
              /\ ~last.outcome.ok
              /\ last.outcome.error # Undef
              /\ last.outcome.error[1].name = "AuthenticationError"

C1_Witness ==
    /\ apiKey = Undefined
    /\ last.ev = "invoke"
    /\ last.op = "searchTokens"
    /\ last.requests = <<>>
    /\ last.outcome.error # Undef
    /\ last.outcome.error[1].name = "AuthenticationError"

\* C2: when the request of any operation fails, the error raised is classified by the
\* outcome: 401 gives an AuthenticationError, 429 a RateLimitError, 500..599 a
\* ServerError, any other status the generic API error, no response a ServerError.
C2_ErrorClassifiedByStatus ==
    (last.ev = "settle" /\ last.res.type # "ok") =>
        /\ ~last.outcome.ok
        /\ last.outcome.error # Undef
        /\ LET name == last.outcome.error[1].name
               status == last.res.status
           IN  IF last.res.type = "noresponse" THEN name = "ServerError"
               ELSE IF status = 401 THEN name = "AuthenticationError"
               ELSE IF status = 429 THEN name = "RateLimitError"
               ELSE IF status \in 500..599 THEN name = "ServerError"
               ELSE name = "VyperApiException"

C2_Witness ==
    /\ last.ev = "settle"
    /\ last.op = "getWalletPnl"
    /\ last.res.type = "response"
    /\ last.res.status = 400
    /\ last.outcome.error # Undef
    /\ last.outcome.error[1].name = "VyperApiException"

\* The number 3.0 the specification gives as the default retry-after duration.
C3_DefaultRetryAfter == Num(300)

\* C3 (the claim as stated): a 429 answer raises a RateLimitError whose retryAfter is
\* the number parsed from the retry-after header when the header is present and
\* parses to a number, and 3.0 when the header is absent or does not parse.
C3_RetryAfterParsedOrDefault ==
    (last.ev = "settle" /\ last.res.type = "response" /\ last.res.status = 429) =>
        /\ last.outcome.error # Undef
        /\ last.outcome.error[1].name = "RateLimitError"
        /\ LET header == last.res.retryAfter
               parseable == header # Undef /\ ~parseFloat(header[1]).nan
           IN  last.outcome.error[1].retryAfter =
                   Def(IF parseable THEN parseFloat(header[1]) ELSE C3_DefaultRetryAfter)

\* C4 (the claim as stated): every error raised for a request that received a response
\* carries the response's status code and its body.
C4_ErrorCarriesStatusAndBody ==
    (last.ev = "settle" /\ last.res.type = "response") =>
        /\ last.outcome.error # Undef
        /\ last.outcome.error[1].statusCode = Def(last.res.status)
        /\ last.outcome.error[1].response = last.res.data

\* C5 (the claim as stated): on a client constructed with a key, every request of
\* getChainIds is issued without the X-API-Key header, and when a getChainIds call
\* completes, by returning or by throwing, the default header is present again and
\* holds the constructor's key.
C5_ChainIdsSuppressesAndRestoresKey ==
    Truthy(apiKey) =>
        /\ (last.ev = "invoke" /\ last.op = "getChainIds") =>
              /\ Len(last.requests) = 1
              /\ last.requests[1].xApiKey = Undefined
        /\ (last.ev = "settle" /\ last.op = "getChainIds") => xApiKeyHeader = apiKey

\* What does hold of getChainIds: the request never carries the header, and a call that
\* found the header present puts the value it found back when it completes. A call that
\* starts while another getChainIds call has the header deleted finds nothing to restore.
ChainIdsRestoresTheKeyItFound ==
    /\ (last.ev = "invoke" /\ last.op = "getChainIds") =>
          /\ Len(last.requests) = 1
          /\ last.requests[1].xApiKey = Undefined
    /\ (last.ev = "settle" /\ last.op = "getChainIds"
            /\ last.originalApiKey # Undefined) =>
          /\ Truthy(apiKey)
          /\ xApiKeyHeader = last.originalApiKey
          /\ xApiKeyHeader = apiKey

\* C6: an invocation issues no request when its credential check fails and exactly one
\* when it passes, whatever the answer: no step sends a request again, and every call,
\* suspended or settled, has issued exactly one.
C6_OneRequestPerInvocation ==
    /\ last.ev # "resend"
    /\ \A c \in BagToSet(inflight) : c.nreq = 1
    /\ last.ev = "settle" => (last.nreq = 1 /\ last.requests = <<>>)
    /\ last.ev = "invoke" =>
          IF last.op \in C1_Operations /\ ~Truthy(apiKey)
          THEN last.requests = <<>> /\ last.nreq = 0 /\ ~last.outcome.ok
          ELSE Len(last.requests) = 1 /\ last.nreq = 1

C6_Witness ==
    /\ last.ev = "settle"
    /\ last.res.status = 429
    /\ last.nreq = 1
    /\ ~last.outcome.ok


\* ------------------------------------------------------------ feed: claims

\* The first of the events `among` that the history `events` holds, or "none".
RECURSIVE FirstAmong(_, _)
FirstAmong(events, among) ==
    IF events = <<>> THEN "none"
    ELSE IF Head(events) \in among THEN Head(events)
    ELSE FirstAmong(Tail(events), among)

\* What the promise's socket has reported since the promise's operation was called.
ReportedSince(p) ==
    SubSeq(sockets[p.socket].events, p.after + 1, Len(sockets[p.socket].events))

\* C7: the promise of connect(feed) is resolved only once the socket that call created
\* has reported open, is rejected with the feed error 'Failed to connect' once that
\* socket has reported error before open, and is pending while it has reported neither.
C7_ConnectFollowsOpenOrError ==
    \A i \in DOMAIN promises :
        promises[i].op = "connect" =>
            LET first == FirstAmong(sockets[promises[i].socket].events, {"open", "error"})
            IN  /\ first = "none" => promises[i].state = "pending"
                /\ first = "open" => promises[i].state = "resolved"
                /\ first = "error" => /\ promises[i].state = "rejected"
                                      /\ promises[i].error = "Failed to connect"

C7_Witness ==
    /\ \E i \in DOMAIN promises :
          /\ promises[i].op = "connect"
          /\ promises[i].state = "rejected"
          /\ sockets[promises[i].socket].events[1] = "error"
    /\ \E i \in DOMAIN promises :
          /\ promises[i].op = "connect"
          /\ promises[i].state = "resolved"
          /\ sockets[promises[i].socket].events[1] = "open"

C8_Operations == {"subscribe", "unsubscribe", "listen", "ping", "pong"}

\* C8: a call of subscribe, unsubscribe, listen, ping or pong made while the client
\* holds no handle rejects with the feed error 'Not connected to WebSocket', hands no
\* frame to a socket, and leaves every socket's listeners and every promise as they were.
C8_NoHandleRejects ==
    [][ (connection = NoSocket /\ wsLast'.ev = "call" /\ wsLast'.op \in C8_Operations) =>
            /\ wsLast'.result = "rejected"
            /\ wsLast'.error = "Not connected to WebSocket"
            /\ wsLast'.frames = <<>>
            /\ sockets' = sockets
            /\ promises' = promises
            /\ connection' = NoSocket ]_vars

\* A disconnect has completed, and a ping made afterwards was rejected.
C8_Witness ==
    /\ connection = NoSocket
    /\ \E i \in DOMAIN promises :
          promises[i].op = "disconnect" /\ promises[i].state = "resolved"
    /\ wsLast.ev = "call"
    /\ wsLast.op = "ping"
    /\ wsLast.result = "rejected"
    /\ wsLast.error = "Not connected to WebSocket"

\* C9 (the claim as stated): for every feed type, subscribe and unsubscribe called while
\* a handle exists hand the socket exactly one frame, the JSON text of the control
\* message, or reject with a feed error when the socket refuses the frame.
C9_ControlMessageSentForEveryFeed ==
    (wsLast.ev = "call" /\ wsLast.op \in {"subscribe", "unsubscribe"}
        /\ connection # NoSocket) =>
        \/ /\ wsLast.result = "resolved"
           /\ wsLast.frames = <<JSON_stringify(wsLast.message)>>
        \/ /\ wsLast.result = "rejected"
           /\ wsLast.error \in {"Failed to subscribe", "Failed to unsubscribe"}
           /\ wsLast.frames = <<>>

\* C10: every promise of a listen() call made with a handle has its open, message, close
\* and error listeners on the handle's socket, and follows the first thing that socket
\* reports after the call: resolved for open, rejected with 'Connection closed
\* unexpectedly' for close, rejected with the wrapped error for error, pending when the
\* socket has reported nothing since.
C10_ListenFollowsFirstReport ==
    \A i \in DOMAIN promises :
        promises[i].op = "listen" =>
            LET ls == sockets[promises[i].socket].listeners
                first == FirstAmong(ReportedSince(promises[i]), {"open", "close", "error"})
            IN  /\ \A e \in {"open", "message", "close", "error"} :
                      Cardinality({k \in DOMAIN ls : ls[k] = Listener(e, "listen", i)}) = 1
                /\ first = "none" => promises[i].state = "pending"
                /\ first = "open" => promises[i].state = "resolved"
                /\ first = "close" =>
                      /\ promises[i].state = "rejected"
                      /\ promises[i].error = "Connection closed unexpectedly"
                /\ first = "error" =>
                      /\ promises[i].state = "rejected"
                      /\ promises[i].error = "Error while listening to messages"

C10_Witness ==
    \E i \in DOMAIN promises :
        /\ promises[i].op = "listen"
        /\ promises[i].after = 1
        /\ ReportedSince(promises[i]) = <<"close">>
        /\ promises[i].state = "rejected"
        /\ promises[i].error = "Connection closed unexpectedly"

\* C11 (the claim as stated): the promise of listen() resolves when its socket reports
\* open, and when the socket reports close or error after that, the same promise is
\* rejected.
C11_ListenRejectsAfterResolving ==
    \A i \in DOMAIN promises :
        promises[i].op = "listen" =>
            LET since == ReportedSince(promises[i])
                later == {k \in DOMAIN since : since[k] \in {"close", "error"}}
            IN  FirstAmong(since, {"open", "close", "error"}) = "open" =>
                    IF later = {}
                    THEN promises[i].state = "resolved"
                    ELSE promises[i].state = "rejected"

\* What does hold: a settled promise stays as it was settled. The promise listen()
\* resolved on open is still resolved after the socket has reported close or error.
ListenStaysResolved ==
    \A i \in DOMAIN promises :
        promises[i].op = "listen" =>
            (FirstAmong(ReportedSince(promises[i]), {"open", "close", "error"}) = "open"
                => promises[i].state = "resolved")

\* --------------------------------------------------- feed: inbound claims

\* The message listeners listen() calls have added to socket s.
MessageListeners(s) ==
    {k \in DOMAIN sockets[s].listeners : sockets[s].listeners[k].event = "message"}

\* The text of the frame the last message event carried.
LastFrameText == Concat(wsLast.message.chunks)

\* The JSON objects among the inbound texts, written out member by member.
C12_Payloads ==
    { [text |-> WalletText,
       object |-> [signer |-> "s-1", marketId |-> "m-1", botUsed |-> "b-1"]],
      [text |-> PairText, object |-> [name |-> "n-1", marketId |-> "m-2"]],
      [text |-> ExtraText, object |-> [marketId |-> "m-3", unlisted |-> "u-1"]] }

\* The fields of the record a feed type selects.
C12_Shape(feedType) ==
    IF feedType = WALLET_EVENTS THEN ChainActionFields ELSE TokenPairFields

\* Record r has exactly the fields of the shape, each equal to the payload's member of
\* that name, and undefined where the payload has none.
C12_Mapped(r, object, feedType) ==
    /\ DOMAIN r = C12_Shape(feedType)
    /\ \A f \in C12_Shape(feedType) :
          r[f] = IF f \in DOMAIN object THEN object[f] ELSE Undefined

\* Every record the last message event handed over went to the registered handler and is
\* the frame's object mapped to the shape of the client's feed type; one record was
\* handed over for each message listener of the socket, and at least one.
C12_Delivered(object) ==
    /\ Len(wsLast.delivered) = Cardinality(MessageListeners(wsLast.socket))
    /\ Len(wsLast.delivered) >= 1
    /\ \A k \in DOMAIN wsLast.delivered :
          /\ wsLast.delivered[k].handler = messageHandler
          /\ C12_Mapped(wsLast.delivered[k].record, object, currentFeedType)

\* A message event reached a socket on which listen() is active while a handler is
\* registered.
C12_FrameForHandler ==
    /\ wsLast.ev = "message"
    /\ messageHandler # Undefined
    /\ MessageListeners(wsLast.socket) # {}

C13_Malformed(data) ==
    \/ data.kind = "string"
    \/ Concat(data.chunks) \notin {WalletText, PairText, ExtraText}

\* C13: a step in which a frame fails to parse or to map hands nothing to the handler
\* and changes no promise, no socket (its state and listeners) and not the handle, the
\* handler or the feed type; and when the next thing that happens is a well-formed frame
\* on the same socket, with listen() active and a handler registered, that frame is
\* delivered.
C13_MalformedFrameDropped ==
    [][ /\ (wsLast'.ev = "message" /\ C13_Malformed(wsLast'.message)) =>
              /\ wsLast'.delivered = <<>>
              /\ promises' = promises
              /\ sockets' = sockets
              /\ connection' = connection
              /\ messageHandler' = messageHandler
              /\ currentFeedType' = currentFeedType
        /\ (/\ wsLast.ev = "message" /\ C13_Malformed(wsLast.message)
            /\ wsLast'.ev = "message" /\ ~C13_Malformed(wsLast'.message)
            /\ wsLast'.socket = wsLast.socket
            /\ MessageListeners(wsLast.socket) # {}
            /\ messageHandler # Undefined) =>
              /\ Len(wsLast'.delivered) >= 1
              /\ \A k \in DOMAIN wsLast'.delivered :
                    \E o \in C12_Payloads :
                        /\ o.text = Concat(wsLast'.message.chunks)
                        /\ C12_Mapped(wsLast'.delivered[k].record, o.object,
                                      currentFeedType) ]_vars

\* A frame cut short was logged and dropped while listen()'s promise was resolved and the
\* socket the handle.
C13_Witness ==
    /\ wsLast.ev = "message"
    /\ wsLast.message.chunks = << <<"{", "signer", ":">> >>
    /\ messageHandler # Undefined
    /\ wsLast.logged = 1
    /\ wsLast.delivered = <<>>
    /\ connection = wsLast.socket
    /\ sockets[wsLast.socket].readyState = "OPEN"
    /\ \E i \in DOMAIN promises :
          /\ promises[i].op = "listen"
          /\ promises[i].socket = wsLast.socket
          /\ promises[i].state = "resolved"

\* C14: a frame that arrives while no handler is registered is handed to nobody, logs
\* nothing and leaves no trace in what the client or its sockets hold; registering a
\* handler hands over nothing; and whatever a message event hands over is the mapping of
\* that event's own frame, once per message listener, never a frame that came earlier.
C14_FrameWithoutHandlerDropped ==
    [][ /\ (wsLast'.ev = "message" /\ messageHandler = Undefined) =>
              /\ wsLast'.delivered = <<>>
              /\ wsLast'.logged = 0
              /\ UNCHANGED <<connection, currentFeedType, messageHandler, sockets,
                             promises>>
        /\ (wsLast'.ev = "call" /\ wsLast'.op = "setMessageHandler") =>
              /\ wsLast'.delivered = <<>>
              /\ UNCHANGED <<connection, currentFeedType, sockets, promises>>
        /\ wsLast'.ev = "message" =>
              /\ Len(wsLast'.delivered) <= Cardinality(MessageListeners(wsLast'.socket))
              /\ \A k \in DOMAIN wsLast'.delivered :
                    \E o \in C12_Payloads :
                        /\ o.text = Concat(wsLast'.message.chunks)
                        /\ C12_Mapped(wsLast'.delivered[k].record, o.object,
                                      currentFeedType) ]_vars

\* A well-formed frame arrived on an open socket with listen() active and no handler
\* registered, and went nowhere.
C14_Witness ==
    /\ wsLast.ev = "message"
    /\ messageHandler = Undefined
    /\ MessageListeners(wsLast.socket) # {}
    /\ Concat(wsLast.message.chunks) = WalletText
    /\ wsLast.message.kind = "Buffer"
    /\ wsLast.delivered = <<>>
    /\ wsLast.logged = 0

\* C15: the client holds one handler, the one given to the most recent setMessageHandler
\* call: such a call replaces the handler held, nothing else changes it, and every record
\* a message event hands over goes to the handler held at that moment and to no other,
\* also when the handler was replaced after listen() had added its listeners.
C15_LastHandlerReceives ==
    [][ /\ (wsLast'.ev = "call" /\ wsLast'.op = "setMessageHandler") =>
              /\ messageHandler' = wsLast'.message.handler
              /\ wsLast'.message.previous = messageHandler
        /\ messageHandler' # messageHandler =>
              (wsLast'.ev = "call" /\ wsLast'.op = "setMessageHandler")
        /\ wsLast'.ev = "message" =>
              \A k \in DOMAIN wsLast'.delivered :
                  /\ wsLast'.delivered[k].handler = messageHandler
                  /\ wsLast'.delivered[k].handler \in MessageHandlers
        /\ (wsLast.ev = "call" /\ wsLast.op = "setMessageHandler"
                /\ wsLast'.ev = "message") =>
              \A k \in DOMAIN wsLast'.delivered :
                  wsLast'.delivered[k].handler = wsLast.message.handler ]_vars

\* A handler was replaced by another while listen()'s message listener was on an open
\* socket.
C15_Witness ==
    /\ wsLast.ev = "call"
    /\ wsLast.op = "setMessageHandler"
    /\ wsLast.message.previous = "handler-1"
    /\ wsLast.message.handler = "handler-throws"
    /\ messageHandler = "handler-throws"
    /\ \E s \in DOMAIN sockets :
          sockets[s].readyState = "OPEN" /\ MessageListeners(s) # {}

\* ------------------------------------------------ feed: disconnecting claims

\* C16 (the claim as stated): disconnect() with no handle resolves at once and touches
\* nothing; with a handle it closes the handle's socket and returns a pending promise,
\* which is resolved only when that socket has reported close since the call; once the
\* socket reports close the handle is cleared, and the handle is still set as long as a
\* disconnect() promise waits for a close its socket has not reported.
C16_DisconnectResolvesOnClose ==
    /\ (wsLast.ev = "call" /\ wsLast.op = "disconnect") =>
          IF connection = NoSocket
          THEN wsLast.result = "resolved"
          ELSE /\ wsLast.result = "pending"
               /\ promises[Len(promises)].op = "disconnect"
               /\ promises[Len(promises)].socket = connection
               /\ sockets[connection].readyState \in {"CLOSING", "CLOSED"}
    /\ \A i \in DOMAIN promises :
          promises[i].op = "disconnect" =>
              LET since == ReportedSince(promises[i])
                  closed == \E k \in DOMAIN since : since[k] = "close"
              IN  /\ promises[i].state = "resolved" => closed
                  /\ (closed /\ wsLast.ev = "close" /\ wsLast.socket = promises[i].socket)
                        => connection = NoSocket
                  /\ ~closed => connection # NoSocket

\* What does hold: the disconnect() call itself never clears the handle; the handle is
\* cleared exactly in the steps where a socket on which disconnect() was called reports
\* close, whichever socket the handle is at that moment.
HandleClearedByAnyDisconnectedSocket ==
    [][ connection' # connection =>
            \/ wsLast'.ev = "call" /\ wsLast'.op = "connect"
            \/ /\ wsLast'.ev = "close"
               /\ connection' = NoSocket
               /\ \E i \in DOMAIN promises :
                     /\ promises[i].op = "disconnect"
                     /\ promises[i].socket = wsLast'.socket ]_vars

\* C17: when the first thing a socket reports after a disconnect() call is error, the
\* call's promise is rejected with the feed error 'Failed to disconnect', and it stays
\* rejected when the socket reports close afterwards; it is resolved only when close
\* comes first, and pending while the socket has reported neither.
C17_DisconnectRejectsOnError ==
    \A i \in DOMAIN promises :
        promises[i].op = "disconnect" =>
            LET first == FirstAmong(ReportedSince(promises[i]), {"close", "error"})
            IN  /\ first = "error" =>
                      /\ promises[i].state = "rejected"
                      /\ promises[i].error = "Failed to disconnect"
                /\ first = "close" => promises[i].state = "resolved"
                /\ first = "none" => promises[i].state = "pending"

C17_Witness ==
    \E i \in DOMAIN promises :
        /\ promises[i].op = "disconnect"
        /\ ReportedSince(promises[i]) = <<"error", "close">>
        /\ promises[i].state = "rejected"
        /\ promises[i].error = "Failed to disconnect"

\* ----------------------------------------------- feed: connection claims

\* The sockets the client has created that have not closed.
LiveSockets == {s \in DOMAIN sockets : sockets[s].readyState # "CLOSED"}

\* C18 (the claim as stated): at any time at most one socket the client created is live.
C18_AtMostOneLiveSocket == Cardinality(LiveSockets) <= 1

\* What does hold: the client holds at most one handle, the socket of the latest
\* connect() call or none; earlier sockets stay live without one.
HandleIsLatestSocketOrNone == connection \in {NoSocket, Len(sockets)}

\* The feed type in the URL socket s was created for.
SocketFeed(s) == sockets[s].url[2]

\* C19 (the claim as stated): every record a message event hands over has the shape of
\* the feed type given to the connect() call that created the event's socket.
C19_FramesTypedBySocketFeed ==
    wsLast.ev = "message" =>
        \A k \in DOMAIN wsLast.delivered :
            DOMAIN wsLast.delivered[k].record = C12_Shape(SocketFeed(wsLast.socket))

\* What does hold: a record has the shape of the feed type of the latest connect() call,
\* whichever socket the frame came from.
FramesTypedByLatestConnect ==
    wsLast.ev = "message" =>
        \A k \in DOMAIN wsLast.delivered :
            /\ DOMAIN wsLast.delivered[k].record = C12_Shape(currentFeedType)
            /\ currentFeedType = SocketFeed(Len(sockets))

\* Socket s has reported close or error.
C20_Dropped(s) ==
    \E k \in DOMAIN sockets[s].events : sockets[s].events[k] \in {"close", "error"}

\* C20 (the claim as stated): a socket that has reported close or error, after a
\* disconnect() or unexpectedly, while connecting or while open, is not the handle, so a
\* subscribe, unsubscribe, ping or pong call made afterwards rejects with 'Not connected
\* to WebSocket'.
C20_NoHandleAfterCloseOrError ==
    /\ \A s \in DOMAIN sockets : C20_Dropped(s) => connection # s
    /\ (/\ wsLast.ev = "call"
        /\ wsLast.op \in {"subscribe", "unsubscribe", "ping", "pong"}
        /\ \A s \in DOMAIN sockets : C20_Dropped(s)) =>
          /\ wsLast.result = "rejected"
          /\ wsLast.error = "Not connected to WebSocket"

\* What does hold: an unexpected close leaves the handle as it was. While no
\* disconnect() call has been made, the latest socket is still the handle after it has
\* closed.
HandleKeptAfterUnexpectedClose ==
    \A s \in DOMAIN sockets :
        (/\ sockets[s].readyState = "CLOSED"
         /\ s = Len(sockets)
         /\ \A i \in DOMAIN promises : promises[i].op # "disconnect") => connection = s


\* ------------------------------------------------- REST: request shape claims

\* C21: a getTokenMarket call that passes its credential check issues exactly one GET to
\* /api/v1/token/market/{marketId} whose query parameters are chainID and interval:
\* chainID is 900 when the caller left chainId out and the passed value otherwise,
\* interval is '24h' when the caller left it out and the passed value otherwise.
C21_MarketDefaultsAndOverrides ==
    [][\A a \in ArgsFor("getTokenMarket") :
          (Truthy(apiKey) /\ Invoke("getTokenMarket", a)) =>
              /\ Len(last'.requests) = 1
              /\ last'.requests[1].method = "GET"
              /\ last'.requests[1].url = <<"/api/v1/token/market/", MarketIdArg>>
              /\ last'.requests[1].params =
                    Def([chainID |-> IF a.chainId = Undef THEN 900 ELSE a.chainId[1],
                         interval |-> IF a.interval = Undef THEN "24h"
                                      ELSE a.interval[1]])]_vars

\* getTokenMarket(marketId) alone has issued its request with both defaults.
C21_Witness ==
    /\ last.ev = "invoke"
    /\ last.op = "getTokenMarket"
    /\ Len(last.requests) = 1
    /\ last.requests[1].params = Def([chainID |-> 900, interval |-> "24h"])

\* Explicit values have replaced both defaults.
C21_OverrideReached ==
    /\ last.ev = "invoke"
    /\ last.op = "getTokenMarket"
    /\ Len(last.requests) = 1
    /\ \E c \in ChainIds : \E i \in Intervals :
          last.requests[1].params = Def([chainID |-> c, interval |-> i])

\* C22: a getTokenHolders call that the server answered returns a record with exactly
\* the fields holders and totalHolders, holders being the payload's holders (the same
\* elements in the same order) and totalHolders the payload's total_holders.
C22_HoldersMapped ==
    (last.ev = "settle" /\ last.op = "getTokenHolders" /\ last.res.type = "ok") =>
        /\ last.outcome.ok
        /\ LET r == last.outcome.value[1]
               payload == last.res.data[1].data
           IN  /\ DOMAIN r = {"holders", "totalHolders"}
               /\ r.holders = payload.holders
               /\ r.totalHolders = payload.total_holders

\* A getTokenHolders call has returned a payload of two holders.
C22_Witness ==
    /\ last.ev = "settle"
    /\ last.op = "getTokenHolders"
    /\ last.res.type = "ok"
    /\ last.outcome.ok
    /\ Len(last.res.data[1].data.holders) = 2
    /\ last.res.data[1].data.holders[1] # last.res.data[1].data.holders[2]

\* C23: getWalletHoldings, getWalletAggregatedPnl, getWalletPnl and getTokenPairs each
\* issue one GET to a URL under /api/v1 ('/api/v1/wallet/holdings',
\* '/api/v1/wallet/aggregated-pnl', '/api/v1/wallet/pnl', '/api/v1/token/pairs'), with
\* the caller's parameters as query parameters.
C23_Urls ==
    [getWalletHoldings |-> <<"/api/v1/wallet/holdings">>,
     getWalletAggregatedPnl |-> <<"/api/v1/wallet/aggregated-pnl">>,
     getWalletPnl |-> <<"/api/v1/wallet/pnl">>,
     getTokenPairs |-> <<"/api/v1/token/pairs">>]

C23_WalletUrlsUnderApiV1 ==
    (last.ev = "invoke" /\ last.op \in DOMAIN C23_Urls) =>
        /\ Len(last.requests) = 1
        /\ last.requests[1].method = "GET"
        /\ last.requests[1].url = C23_Urls[last.op]
        /\ last.requests[1].params # Undef


\* ------------------------------------------------ REST: shared header claims

\* The getChainIds calls in flight.
ChainIdsInFlight == {c \in BagToSet(inflight) : c.op = "getChainIds"}

\* C24: on a client constructed with a key, a credential-gated operation always passes
\* its local check and issues one request; that request carries the key or no header
\* at all, and it can lack the header only while a getChainIds call is in flight. The
\* state in which it does lack the header is reachable (C24_Witness).
C24_GatedRequestMissesKeyOnlyDuringChainIds ==
    (Truthy(apiKey) /\ last.ev = "invoke" /\ last.op \in GatedOps) =>
        /\ last.outcome = NoOutcome
        /\ Len(last.requests) = 1
        /\ last.requests[1].xApiKey \in {apiKey, Undefined}
        /\ last.requests[1].xApiKey = Undefined => ChainIdsInFlight # {}

\* A gated operation started while a getChainIds call is in flight has passed its local
\* check and issued its request without the X-API-Key header.
C24_Witness ==
    /\ Truthy(apiKey)
    /\ last.ev = "invoke"
    /\ last.op \in GatedOps
    /\ last.outcome = NoOutcome
    /\ Len(last.requests) = 1
    /\ last.requests[1].xApiKey = Undefined
    /\ ChainIdsInFlight # {}

\* C26: on a client constructed with a key, in every reachable state, whenever the
\* default X-API-Key header is absent some getChainIds call in flight holds the saved
\* key, and when no getChainIds call is in flight the header is present and equal to
\* the constructor's key.
C26_KeyHeldWhileHeaderAbsent ==
    Truthy(apiKey) =>
        /\ xApiKeyHeader = Undefined =>
              \E c \in ChainIdsInFlight : c.originalApiKey = apiKey
        /\ ChainIdsInFlight = {} => xApiKeyHeader = apiKey

\* Of two overlapping getChainIds calls the one that saved nothing has completed (by
\* success or by failure): the header is still absent and the other call holds the key.
C26_Witness ==
    /\ Truthy(apiKey)
    /\ last.ev = "settle"
    /\ last.op = "getChainIds"
    /\ last.originalApiKey = Undefined
    /\ xApiKeyHeader = Undefined
    /\ \E c \in ChainIdsInFlight : c.originalApiKey = apiKey

\* Both overlapping getChainIds calls have completed, the last one by a failure.
C26_AllCompleted ==
    /\ Truthy(apiKey)
    /\ last.ev = "settle"
    /\ last.op = "getChainIds"
    /\ ~last.outcome.ok
    /\ last.originalApiKey = apiKey
    /\ inflight = EmptyBag
    /\ xApiKeyHeader = apiKey


\* ------------------------------------------- feed: listening session claims

\* The promises of the listen() calls made on socket s.
ListenPromises(s) ==
    {i \in DOMAIN promises : promises[i].op = "listen" /\ promises[i].socket = s}

\* The last step was a well-formed frame reported by a socket while a handler is
\* registered.
WellFormedFrameForHandler ==
    /\ wsLast.ev = "message"
    /\ messageHandler # Undefined
    /\ ~C13_Malformed(wsLast.message)

\* Every record the last message event handed over went to the registered handler and is
\* the mapping of that event's frame.
HandedToHandler ==
    /\ Len(wsLast.delivered) >= 1
    /\ \A k \in DOMAIN wsLast.delivered :
          /\ wsLast.delivered[k].handler = messageHandler
          /\ \E o \in C12_Payloads :
                /\ o.text = LastFrameText
                /\ C12_Mapped(wsLast.delivered[k].record, o.object, currentFeedType)

\* C25: a well-formed frame that a socket reports after the promise of a listen() call
\* on that socket has been resolved is still handed to the registered handler. A socket
\* reports frames only while it is open, so this lasts until the socket closes.
C25_FramesDispatchedAfterListenResolved ==
    (/\ WellFormedFrameForHandler
     /\ \E i \in ListenPromises(wsLast.socket) : promises[i].state = "resolved") =>
        /\ HandedToHandler
        /\ sockets[wsLast.socket].readyState = "OPEN"

\* A frame of the wallet feed was handed over on a socket whose listen() promise had
\* been resolved by the open event.
C25_Witness ==
    /\ WellFormedFrameForHandler
    /\ LastFrameText = WalletText
    /\ currentFeedType = WALLET_EVENTS
    /\ \E i \in ListenPromises(wsLast.socket) :
          /\ promises[i].state = "resolved"
          /\ ReportedSince(promises[i]) = <<"open">>
    /\ Len(wsLast.delivered) = 1
    /\ wsLast.delivered[1].record.signer = "s-1"

\* Whether the socket of promise p had reported open when p's operation was called.
OpenBeforeCall(p) ==
    \E k \in 1..p.after : sockets[p.socket].events[k] = "open"

\* C27: the promise of a listen() call made on a socket that had already reported open
\* is never resolved: it is pending while the socket has reported neither close nor
\* error since the call, and rejected by the first of the two; a well-formed frame that
\* arrives while it is pending is handed to the registered handler.
C27_LateListenNeverResolves ==
    \A i \in DOMAIN promises :
        (promises[i].op = "listen" /\ OpenBeforeCall(promises[i])) =>
            LET first == FirstAmong(ReportedSince(promises[i]), {"close", "error"})
            IN  /\ promises[i].state # "resolved"
                /\ first = "none" => promises[i].state = "pending"
                /\ first = "close" =>
                      /\ promises[i].state = "rejected"
                      /\ promises[i].error = "Connection closed unexpectedly"
                /\ first = "error" =>
                      /\ promises[i].state = "rejected"
                      /\ promises[i].error = "Error while listening to messages"
                /\ (WellFormedFrameForHandler /\ wsLast.socket = promises[i].socket
                        /\ promises[i].state = "pending") => HandedToHandler

\* connect, open, listen, then a frame: the frame was handed over while the promise of
\* listen() was still pending.
C27_Witness ==
    /\ WellFormedFrameForHandler
    /\ Len(wsLast.delivered) = 1
    /\ \E i \in ListenPromises(wsLast.socket) :
          /\ OpenBeforeCall(promises[i])
          /\ promises[i].state = "pending"

\* A listen() call made after open was rejected by the close event.
C27_RejectedReached ==
    \E i \in DOMAIN promises :
        /\ promises[i].op = "listen"
        /\ OpenBeforeCall(promises[i])
        /\ promises[i].state = "rejected"
        /\ promises[i].error = "Connection closed unexpectedly"


\* C30: when the registered handler throws on a well-formed frame, each message listener
\* of the socket has handed the frame over and logged one error, as it does for a frame
\* that fails to parse; the step settles no promise and changes neither the handle, the
\* registered handler, the feed type nor any socket's listeners; and when the next thing
\* that happens is another well-formed frame on the same socket, that frame is handed
\* over too.
C30_HandlerExceptionCaught ==
    [][ /\ (/\ wsLast'.ev = "message"
            /\ HandlerThrows(messageHandler)
            /\ ~C13_Malformed(wsLast'.message)
            /\ MessageListeners(wsLast'.socket) # {}) =>
              /\ Len(wsLast'.delivered) = Cardinality(MessageListeners(wsLast'.socket))
              /\ wsLast'.logged = Len(wsLast'.delivered)
              /\ promises' = promises
              /\ sockets' = sockets
              /\ connection' = connection
              /\ messageHandler' = messageHandler
              /\ currentFeedType' = currentFeedType
        /\ (/\ wsLast.ev = "message"
            /\ HandlerThrows(messageHandler)
            /\ wsLast.delivered # <<>>
            /\ wsLast'.ev = "message"
            /\ ~C13_Malformed(wsLast'.message)
            /\ wsLast'.socket = wsLast.socket) =>
              /\ Len(wsLast'.delivered) = Len(wsLast.delivered)
              /\ \A k \in DOMAIN wsLast'.delivered :
                    wsLast'.delivered[k].handler = messageHandler ]_vars

\* The handler threw on a frame of the token feed: the error was logged, the promise of
\* listen() is still resolved and the socket is still open and the handle.
C30_Witness ==
    /\ wsLast.ev = "message"
    /\ HandlerThrows(messageHandler)
    /\ LastFrameText = PairText
    /\ Len(wsLast.delivered) = 1
    /\ wsLast.logged = 1
    /\ connection = wsLast.socket
    /\ sockets[wsLast.socket].readyState = "OPEN"
    /\ \E i \in ListenPromises(wsLast.socket) : promises[i].state = "resolved"


\* The promises of the disconnect() calls made on socket s.
DisconnectPromises(s) ==
    {j \in DOMAIN promises : promises[j].op = "disconnect" /\ promises[j].socket = s}

\* C28: when a socket reports close while the promise of a listen() call on it and the
\* promise of a disconnect() call made on it after that listen() call are both pending,
\* that one step rejects the listen() promise with 'Connection closed unexpectedly',
\* resolves the disconnect() promise and clears the handle.
C28_DisconnectRejectsPendingListen ==
    [][ wsLast'.ev = "close" =>
            \A i \in ListenPromises(wsLast'.socket) :
                \A j \in DisconnectPromises(wsLast'.socket) :
                    (/\ i < j
                     /\ promises[i].state = "pending"
                     /\ promises[j].state = "pending") =>
                        /\ promises'[i].state = "rejected"
                        /\ promises'[i].error = "Connection closed unexpectedly"
                        /\ promises'[j].state = "resolved"
                        /\ connection' = NoSocket ]_vars

\* connect, open, listen, disconnect, close: the close event has rejected the promise of
\* listen() and resolved the promise of disconnect(), and the handle is cleared.
C28_Witness ==
    /\ wsLast.ev = "close"
    /\ connection = NoSocket
    /\ \E i \in ListenPromises(wsLast.socket) :
          \E j \in DisconnectPromises(wsLast.socket) :
              /\ i < j
              /\ OpenBeforeCall(promises[i])
              /\ ReportedSince(promises[i]) = <<"close">>
              /\ ReportedSince(promises[j]) = <<"close">>
              /\ promises[i].state = "rejected"
              /\ promises[i].error = "Connection closed unexpectedly"
              /\ promises[j].state = "resolved"

\* C29: every listen() call made on a socket has exactly one message listener of its own
\* among the socket's listeners, whatever has happened since, and the socket has no
\* other message listener; so a well-formed frame that arrives while a handler is
\* registered is handed to that handler exactly k times, k being the number of listen()
\* calls made on the socket before the frame: not at all when k = 0, once only when
\* k = 1.
C29_DeliveredOncePerListenCall ==
    /\ \A s \in DOMAIN sockets :
          /\ \A i \in ListenPromises(s) :
                Cardinality({k \in MessageListeners(s) :
                                sockets[s].listeners[k] = Listener("message", "listen", i)})
                    = 1
          /\ Cardinality(MessageListeners(s)) = Cardinality(ListenPromises(s))
    /\ WellFormedFrameForHandler =>
          /\ Len(wsLast.delivered) = Cardinality(ListenPromises(wsLast.socket))
          /\ \A k \in DOMAIN wsLast.delivered :
                /\ wsLast.delivered[k].handler = messageHandler
                /\ wsLast.delivered[k].record = wsLast.delivered[1].record

\* Two listen() calls were made on the socket, and one frame was handed to the handler
\* twice.
C29_Witness ==
    /\ WellFormedFrameForHandler
    /\ Cardinality(ListenPromises(wsLast.socket)) = 2
    /\ Len(wsLast.delivered) = 2
    /\ wsLast.delivered[1] = wsLast.delivered[2]

\* No listen() call was made on the socket, and the frame was handed to nobody.
C29_NoListenReached ==
    /\ WellFormedFrameForHandler
    /\ ListenPromises(wsLast.socket) = {}
    /\ wsLast.delivered = <<>>

====
